---- MODULE Spec2Model ----
(***************************************************************************)
(* Token lifecycle engine of byteforge-aegis (src/src/services/            *)
(* token_service.py).  Every request runs on its own unit of execution;    *)
(* a request's steps are its calls to the token store, and the steps of    *)
(* different requests interleave freely.  The clock is the unix time in    *)
(* seconds, advanced by Tick.  Webhook delivery (src/src/services/         *)
(* webhook_service.py) runs each delivery on a background thread of its    *)
(* own.                                                                    *)
(***************************************************************************)
EXTENDS Integers, FiniteSets, Sequences, TLC

\* ---- bounds -------------------------------------------------------------
MaxTime == 3            \* the clock runs 0..MaxTime
MaxTokens == 3          \* refresh tokens ever generated
MaxFamilies == 1        \* logins (refresh-token families ever started)
MaxLogins == 2          \* logins in the specification with several users and sites
MaxIssued == 2          \* tokens of all kinds ever generated, sequential specification
MaxCalls == 2           \* send_webhook calls
MaxBody == 3            \* length of a payload body handed to compute_signature
MaxTimestamp == 12      \* timestamps handed to compute_signature run 0..MaxTimestamp

\* ---- configuration (config.py is read through self.config) ---------------
REFRESH_TOKEN_EXPIRATION == 2
REFRESH_TOKEN_GRACE_PERIOD == 1
AUTH_TOKEN_EXPIRATION == 1
EMAIL_VERIFICATION_EXPIRATION == 1
PASSWORD_RESET_EXPIRATION == 1
EMAIL_CHANGE_EXPIRATION == 1

Procs == {"r1", "r2"}   \* concurrent requests
Sequential == {"r1"}    \* the one request of the sequential specification
Emails == {"new@example.org"}
NoEmail == ""
Sites == {1}
Users == {1}

None == 0 - 1           \* Python's None for an Optional[int] / a missing token
NoValue == "None"       \* Python's None for an Optional[str] or an object

VARIABLES
    now,                    \* time.time()
    REFRESH_TOKEN_ROTATION, \* config flag, fixed at start-up
    refresh_tokens,         \* the refresh_tokens table: token -> row
    tokens,                 \* the auth_tokens, email_verification_tokens, password_reset_tokens
                            \* and email_change_requests tables: token -> row, told apart by kind
    generated,              \* number of token strings generated so far
    budget,                 \* number of token strings the run may generate (fixed)
    families,               \* number of family ids generated so far
    pc,                     \* per request: position in validate_and_rotate_refresh_token
    token,                  \* per request: the argument `token`
    refresh_token,          \* per request: the local `refresh_token` (row read at line 143)
    current_time,           \* per request: the local `current_time`
    result,                 \* per request: what the call returned / raised
    found,                  \* per request: the local email_token / reset_token / change_request
    raced,                  \* history: per request, the requests that had found the same
                            \* token ACTIVE and were still rotating it when this one
                            \* presented it, still valid and within the grace period
    consumed,               \* history: one-time tokens whose validation has succeeded
    calls,                  \* the send_webhook calls made, with what each caller got back
    threads,                \* the background threads started by send_webhook
    posts,                  \* the HTTP POSTs made to tenant endpoints
    webhook_events,         \* the webhook_events table (audit log)
    signing                 \* a compute_signature call: its arguments and its result

vars == <<now, REFRESH_TOKEN_ROTATION, budget, refresh_tokens, tokens, generated, families,
          pc, token, refresh_token, current_time, result, found, raced, consumed,
          calls, threads, posts, webhook_events, signing>>

reqvars == <<pc, token, refresh_token, current_time, result, found, raced>>

\* what every token operation leaves unchanged
webhook == <<calls, threads, posts, webhook_events, signing>>

\* what an operation on the refresh_tokens table alone leaves unchanged
others == <<tokens, consumed, budget>>

\* ---- rows and results ----------------------------------------------------
NoRow == [token |-> None, site_id |-> None, user_id |-> None, family_id |-> None,
          expires_at |-> None, created_at |-> None, used_at |-> None, revoked |-> FALSE]

\* a row of one of the four other tables (used: password reset only; new_email: email change only)
NoToken == [kind |-> "none", token |-> None, site_id |-> None, user_id |-> None,
            expires_at |-> None, created_at |-> None, used |-> FALSE, new_email |-> NoEmail]

\* RefreshTokenResult / None / raised errors, as seen by the caller
NoResult == [kind |-> "pending", user_id |-> None, site_id |-> None,
     new_refresh_token |-> None, new_email |-> NoEmail]
ReturnNone == [kind |-> "None", user_id |-> None, site_id |-> None,
     new_refresh_token |-> None, new_email |-> NoEmail]
ReuseDetected == [kind |-> "ReuseDetected", user_id |-> None, site_id |-> None,
     new_refresh_token |-> None, new_email |-> NoEmail]
StoreFailure == [kind |-> "StoreFailure", user_id |-> None, site_id |-> None,
     new_refresh_token |-> None, new_email |-> NoEmail]
\* Optional[int]: the user_id a validation returns
Returned(u) ==
    [kind |-> "Success", user_id |-> u, site_id |-> None,
     new_refresh_token |-> None, new_email |-> NoEmail]
\* the EmailChangeRequest validate_email_change_token returns
ReturnedRequest(row) ==
    [kind |-> "Success", user_id |-> row.user_id, site_id |-> row.site_id,
     new_refresh_token |-> None, new_email |-> row.new_email]
RefreshTokenResult(u, s, new) ==
    [kind |-> "Success", user_id |-> u, site_id |-> s,
     new_refresh_token |-> new, new_email |-> NoEmail]

\* ---- the token store (database.db_manager) -------------------------------
find_refresh_token_by_token(t) ==
    IF t \in DOMAIN refresh_tokens THEN refresh_tokens[t] ELSE NoRow

Family(f) == {t \in DOMAIN refresh_tokens : refresh_tokens[t].family_id = f}

\* latest = the row inserted last (token strings are numbered in insertion order)
find_latest_refresh_token_in_family(f) ==
    IF Family(f) = {} THEN NoRow
    ELSE refresh_tokens[CHOOSE t \in Family(f) : \A o \in Family(f) : o <= t]

mark_refresh_token_used(t, when) ==
    [x \in DOMAIN refresh_tokens |->
        IF x = t THEN [refresh_tokens[x] EXCEPT !.used_at = when] ELSE refresh_tokens[x]]

revoke_refresh_token_family(f) ==
    [x \in DOMAIN refresh_tokens |->
        IF refresh_tokens[x].family_id = f
        THEN [refresh_tokens[x] EXCEPT !.revoked = TRUE] ELSE refresh_tokens[x]]

delete_refresh_tokens_by_user(u) ==
    [x \in {y \in DOMAIN refresh_tokens : refresh_tokens[y].user_id # u} |-> refresh_tokens[x]]

\* ---- TokenService.create_refresh_token -----------------------------------
NewRefreshToken(site_id, user_id, family_id) ==
    [token |-> generated + 1,
     site_id |-> site_id,
     user_id |-> user_id,
     family_id |-> family_id,
     expires_at |-> now + REFRESH_TOKEN_EXPIRATION,
     created_at |-> now,
     used_at |-> None,
     revoked |-> FALSE]

InFlight(p) == pc[p] \notin {"idle", "done"}

Start ==
    /\ now = 0
    /\ REFRESH_TOKEN_ROTATION \in BOOLEAN
    /\ refresh_tokens = << >>
    /\ generated = 0
    /\ families = 0
    /\ pc = [p \in Procs |-> "idle"]
    /\ token = [p \in Procs |-> None]
    /\ refresh_token = [p \in Procs |-> NoRow]
    /\ current_time = [p \in Procs |-> None]
    /\ result = [p \in Procs |-> NoResult]
    /\ raced = [p \in Procs |-> {}]
    /\ tokens = << >>
    /\ found = [p \in Procs |-> NoToken]
    /\ consumed = {}

\* no webhook has been sent and compute_signature has not been called
NoSigning == [secret |-> "", timestamp |-> 0, payload_json |-> "",
              message |-> "", signature |-> "None"]

WebhookStart ==
    /\ calls = << >>
    /\ threads = << >>
    /\ posts = << >>
    /\ webhook_events = << >>
    /\ signing = NoSigning

Init == Start /\ WebhookStart /\ budget = MaxTokens

InitKinds == Start /\ WebhookStart /\ budget = MaxIssued

\* the clock is counted from the first token issued: until then nothing that is
\* stored or returned depends on it
Tick ==
    /\ now < MaxTime
    /\ generated > 0
    /\ now' = now + 1
    /\ UNCHANGED <<others, REFRESH_TOKEN_ROTATION, webhook, refresh_tokens, generated, families, reqvars>>

\* login: create_refresh_token(site_id, user_id) with family_id = None
create_refresh_token(site_id, user_id) ==
    /\ generated < budget
    /\ families < MaxFamilies
    /\ refresh_tokens' = ((generated + 1) :> NewRefreshToken(site_id, user_id, families + 1))
                            @@ refresh_tokens
    /\ generated' = generated + 1
    /\ families' = families + 1
    /\ UNCHANGED <<others, now, REFRESH_TOKEN_ROTATION, webhook, reqvars>>

\* the call returns r (or raises it): its locals are gone, the caller holds r
Finish(p, r) ==
    /\ pc' = [pc EXCEPT ![p] = "done"]
    /\ result' = [result EXCEPT ![p] = r]
    /\ refresh_token' = [refresh_token EXCEPT ![p] = NoRow]
    /\ found' = [found EXCEPT ![p] = NoToken]
    /\ current_time' = [current_time EXCEPT ![p] = None]

\* mutant: the revoked check of lines 150-151 is missing
AfterFind_NoRevokedCheck(row, ct) ==
    IF row = NoRow THEN "return_none"
    ELSE IF row.expires_at < ct THEN "return_none"
    ELSE IF ~REFRESH_TOKEN_ROTATION THEN "return_plain"
    ELSE IF row.used_at = None THEN "mark_used"
    ELSE IF ct <= row.used_at + REFRESH_TOKEN_GRACE_PERIOD THEN "find_latest"
    ELSE "revoke_family"

\* mutant: the configuration flag of line 156 is not looked at
AfterFind_AlwaysRotate(row, ct) ==
    IF row = NoRow THEN "return_none"
    ELSE IF row.revoked THEN "return_none"
    ELSE IF row.expires_at < ct THEN "return_none"
    ELSE IF row.used_at = None THEN "mark_used"
    ELSE IF ct <= row.used_at + REFRESH_TOKEN_GRACE_PERIOD THEN "find_latest"
    ELSE "revoke_family"

\* mutant: the grace window is open on the right (line 160 with < for <=)
AfterFind_StrictGrace(row, ct) ==
    IF row = NoRow THEN "return_none"
    ELSE IF row.revoked THEN "return_none"
    ELSE IF row.expires_at < ct THEN "return_none"
    ELSE IF ~REFRESH_TOKEN_ROTATION THEN "return_plain"
    ELSE IF row.used_at = None THEN "mark_used"
    ELSE IF ct < row.used_at + REFRESH_TOKEN_GRACE_PERIOD THEN "find_latest"
    ELSE "revoke_family"

\* mutant: the expiry check of lines 153-154 comes after the used-token tests
AfterFind_TheftBeforeExpiry(row, ct) ==
    IF row = NoRow THEN "return_none"
    ELSE IF row.revoked THEN "return_none"
    ELSE IF REFRESH_TOKEN_ROTATION /\ row.used_at # None
    THEN IF ct <= row.used_at + REFRESH_TOKEN_GRACE_PERIOD THEN "find_latest"
         ELSE "revoke_family"
    ELSE IF row.expires_at < ct THEN "return_none"
    ELSE IF ~REFRESH_TOKEN_ROTATION THEN "return_plain"
    ELSE "mark_used"

\* where the checks of lines 145-175 send a request that read `row` at time `ct`
AfterFind(row, ct) ==
    IF row = NoRow THEN "return_none"
    ELSE IF row.revoked THEN "return_none"
    ELSE IF row.expires_at < ct THEN "return_none"
    ELSE IF ~REFRESH_TOKEN_ROTATION THEN "return_plain"
    ELSE IF row.used_at = None THEN "mark_used"
    ELSE IF ct <= row.used_at + REFRESH_TOKEN_GRACE_PERIOD THEN "find_latest"
    ELSE "revoke_family"

\* a free unit of execution takes a request that presents token t
Call(p, t) ==
    /\ ~InFlight(p)
    /\ token' = [token EXCEPT ![p] = t]
    /\ raced' = [q \in Procs |->
                    IF q = p
                    THEN {o \in Procs \ {p} :
                            /\ pc[o] \in {"mark_used", "create"}
                            /\ token[o] = t
                            /\ AfterFind(find_refresh_token_by_token(t), now)
                                    \in {"mark_used", "find_latest"}}
                    ELSE raced[q] \ {p}]

\* validate_and_rotate_refresh_token, lines 143-175: the read and the local checks
validate_and_rotate_refresh_token(p, t) ==
    /\ Call(p, t)
    /\ LET row == find_refresh_token_by_token(t)
           to == AfterFind(row, now) IN
       IF to = "return_none" THEN Finish(p, ReturnNone)
       ELSE IF to = "return_plain"
       THEN Finish(p, RefreshTokenResult(row.user_id, row.site_id, None))
       ELSE /\ refresh_token' = [refresh_token EXCEPT ![p] = row]
            /\ found' = found
            /\ current_time' = [current_time EXCEPT ![p] = now]
            /\ pc' = [pc EXCEPT ![p] = to]
            /\ result' = [result EXCEPT ![p] = NoResult]
    /\ UNCHANGED <<others, now, REFRESH_TOKEN_ROTATION, webhook, refresh_tokens, generated, families>>

\* mutant: the grace path hands out the latest token of the whole table
RotateFindLatest_AnyFamily(p) ==
    /\ pc[p] = "find_latest"
    /\ LET latest == refresh_tokens[CHOOSE t \in DOMAIN refresh_tokens :
                                        \A o \in DOMAIN refresh_tokens : o <= t] IN
       Finish(p, IF DOMAIN refresh_tokens # {} /\ latest.token # refresh_token[p].token
                 THEN RefreshTokenResult(latest.user_id, latest.site_id, latest.token)
                 ELSE RefreshTokenResult(refresh_token[p].user_id,
                                         refresh_token[p].site_id, None))
    /\ UNCHANGED <<others, now, REFRESH_TOKEN_ROTATION, webhook, refresh_tokens, generated, families,
                   token, raced>>

\* mutant: the grace path never hands out the family's latest token
RotateFindLatest_NoLatest(p) ==
    /\ pc[p] = "find_latest"
    /\ Finish(p, RefreshTokenResult(refresh_token[p].user_id, refresh_token[p].site_id, None))
    /\ UNCHANGED <<others, now, REFRESH_TOKEN_ROTATION, webhook, refresh_tokens, generated, families,
                   token, raced>>

\* lines 161-172: the grace-period path
RotateFindLatest(p) ==
    /\ pc[p] = "find_latest"
    /\ LET latest == find_latest_refresh_token_in_family(refresh_token[p].family_id) IN
       Finish(p, IF latest # NoRow /\ latest.token # refresh_token[p].token
                 THEN RefreshTokenResult(latest.user_id, latest.site_id, latest.token)
                 ELSE RefreshTokenResult(refresh_token[p].user_id,
                                         refresh_token[p].site_id, None))
    /\ UNCHANGED <<others, now, REFRESH_TOKEN_ROTATION, webhook, refresh_tokens, generated, families, token, raced>>

\* mutant: every session of the token's user is revoked
RotateRevokeFamily_OfUser(p) ==
    /\ pc[p] = "revoke_family"
    /\ refresh_tokens' = [x \in DOMAIN refresh_tokens |->
                            IF refresh_tokens[x].user_id = refresh_token[p].user_id
                            THEN [refresh_tokens[x] EXCEPT !.revoked = TRUE]
                            ELSE refresh_tokens[x]]
    /\ Finish(p, ReuseDetected)
    /\ UNCHANGED <<others, now, REFRESH_TOKEN_ROTATION, webhook, generated, families, token, raced>>

\* mutant: the error is raised without revoking the family
RotateRevokeFamily_NoRevoke(p) ==
    /\ pc[p] = "revoke_family"
    /\ Finish(p, ReuseDetected)
    /\ UNCHANGED <<others, now, REFRESH_TOKEN_ROTATION, webhook, refresh_tokens, generated, families,
                   token, raced>>

\* lines 174-175: theft detected
RotateRevokeFamily(p) ==
    /\ pc[p] = "revoke_family"
    /\ refresh_tokens' = revoke_refresh_token_family(refresh_token[p].family_id)
    /\ Finish(p, ReuseDetected)
    /\ UNCHANGED <<others, now, REFRESH_TOKEN_ROTATION, webhook, generated, families, token, raced>>

\* line 177
RotateMarkUsed(p) ==
    /\ pc[p] = "mark_used"
    /\ refresh_tokens' = mark_refresh_token_used(token[p], current_time[p])
    /\ pc' = [pc EXCEPT ![p] = "create"]
    /\ UNCHANGED <<others, now, REFRESH_TOKEN_ROTATION, webhook, generated, families,
                   token, refresh_token, current_time, result, found, raced>>

\* mutant: the successor is created without the family_id argument
RotateCreate_FreshFamily(p) ==
    /\ pc[p] = "create"
    /\ generated < budget
    /\ LET new == NewRefreshToken(refresh_token[p].site_id, refresh_token[p].user_id,
                                  families + 1) IN
       /\ refresh_tokens' = (new.token :> new) @@ refresh_tokens
       /\ Finish(p, RefreshTokenResult(refresh_token[p].user_id,
                                       refresh_token[p].site_id, new.token))
    /\ generated' = generated + 1
    /\ families' = families + 1
    /\ UNCHANGED <<others, now, REFRESH_TOKEN_ROTATION, webhook, token, raced>>

\* lines 178-187
RotateCreate(p) ==
    /\ pc[p] = "create"
    /\ generated < budget
    /\ LET new == NewRefreshToken(refresh_token[p].site_id, refresh_token[p].user_id,
                                  refresh_token[p].family_id) IN
       /\ refresh_tokens' = (new.token :> new) @@ refresh_tokens
       /\ Finish(p, RefreshTokenResult(refresh_token[p].user_id,
                                       refresh_token[p].site_id, new.token))
    /\ generated' = generated + 1
    /\ UNCHANGED <<others, now, REFRESH_TOKEN_ROTATION, webhook, families, token, raced>>

\* a store call of the request in flight raises: the error propagates to the caller
RotateStoreFails(p) ==
    /\ pc[p] \in {"mark_used", "create"}
    /\ Finish(p, StoreFailure)
    /\ UNCHANGED <<others, now, REFRESH_TOKEN_ROTATION, webhook, refresh_tokens, generated, families, token, raced>>

\* mutant: the sweep is not restricted to the user's rows
invalidate_user_refresh_tokens_Everyone(user_id) ==
    /\ refresh_tokens' = << >>
    /\ UNCHANGED <<others, now, REFRESH_TOKEN_ROTATION, webhook, generated, families, reqvars>>

invalidate_user_refresh_tokens(user_id) ==
    /\ refresh_tokens' = delete_refresh_tokens_by_user(user_id)
    /\ UNCHANGED <<others, now, REFRESH_TOKEN_ROTATION, webhook, generated, families, reqvars>>

\* ---- the four other tables (database.db_manager) -------------------------
Table(kind) == {t \in DOMAIN tokens : tokens[t].kind = kind}

FindToken(kind, t) == IF t \in Table(kind) THEN tokens[t] ELSE NoToken

find_auth_token_by_token(t) == FindToken("auth", t)
find_email_verification_token(t) == FindToken("email_verification", t)
find_password_reset_token(t) == FindToken("password_reset", t)
find_email_change_request(t) == FindToken("email_change", t)

DeleteTokens(gone) == [x \in DOMAIN tokens \ gone |-> tokens[x]]

delete_auth_token(t) == DeleteTokens({t} \cap Table("auth"))
delete_auth_tokens_by_user(u) == DeleteTokens({t \in Table("auth") : tokens[t].user_id = u})
delete_email_verification_token(t) == DeleteTokens({t} \cap Table("email_verification"))
delete_email_change_request(t) == DeleteTokens({t} \cap Table("email_change"))

mark_password_reset_token_used(t) ==
    [x \in DOMAIN tokens |->
        IF x = t /\ tokens[x].kind = "password_reset"
        THEN [tokens[x] EXCEPT !.used = TRUE] ELSE tokens[x]]

delete_expired_refresh_tokens(before) ==
    [x \in {y \in DOMAIN refresh_tokens : ~(refresh_tokens[y].expires_at < before)}
        |-> refresh_tokens[x]]

\* delete_expired_auth_tokens, ..._email_verification_tokens, ..._password_reset_tokens,
\* ..._email_change_requests
delete_expired_tokens(before) ==
    DeleteTokens({t \in DOMAIN tokens : tokens[t].expires_at < before})

\* ---- create_auth_token, create_email_verification_token, ------------------
\* ---- create_password_reset_token, create_email_change_token ---------------
NewToken(kind, site_id, user_id, lifetime, new_email) ==
    [kind |-> kind,
     token |-> generated + 1,
     site_id |-> site_id,
     user_id |-> user_id,
     expires_at |-> now + lifetime,
     created_at |-> now,
     used |-> FALSE,
     new_email |-> new_email]

CreateToken(row) ==
    /\ generated < budget
    /\ tokens' = (row.token :> row) @@ tokens
    /\ generated' = generated + 1
    /\ UNCHANGED <<now, REFRESH_TOKEN_ROTATION, webhook, budget, refresh_tokens, families, consumed, reqvars>>

create_auth_token(site_id, user_id) ==
    CreateToken(NewToken("auth", site_id, user_id, AUTH_TOKEN_EXPIRATION, NoEmail))

create_email_verification_token(site_id, user_id) ==
    CreateToken(NewToken("email_verification", site_id, user_id,
                         EMAIL_VERIFICATION_EXPIRATION, NoEmail))

create_password_reset_token(site_id, user_id) ==
    CreateToken(NewToken("password_reset", site_id, user_id,
                         PASSWORD_RESET_EXPIRATION, NoEmail))

create_email_change_token(site_id, user_id, new_email) ==
    CreateToken(NewToken("email_change", site_id, user_id,
                         EMAIL_CHANGE_EXPIRATION, new_email))

\* ---- auth tokens ----------------------------------------------------------
\* mutant: the expiry check of lines 68-70 is missing
validate_auth_token_NoExpiry(p, t) ==
    /\ Call(p, t)
    /\ LET auth_token == find_auth_token_by_token(t) IN
       Finish(p, IF auth_token = NoToken THEN ReturnNone
                 ELSE Returned(auth_token.user_id))
    /\ UNCHANGED <<others, now, REFRESH_TOKEN_ROTATION, webhook, refresh_tokens, generated, families>>

\* mutant: the token is refused from the second it expires in (<= for < at line 69)
validate_auth_token_ExpiresEarly(p, t) ==
    /\ Call(p, t)
    /\ LET auth_token == find_auth_token_by_token(t) IN
       Finish(p, IF auth_token = NoToken THEN ReturnNone
                 ELSE IF auth_token.expires_at <= now THEN ReturnNone
                 ELSE Returned(auth_token.user_id))
    /\ UNCHANGED <<others, now, REFRESH_TOKEN_ROTATION, webhook, refresh_tokens, generated, families>>

\* mutant: a successful validation consumes the token
validate_auth_token_Consumes(p, t) ==
    /\ Call(p, t)
    /\ LET auth_token == find_auth_token_by_token(t) IN
       /\ Finish(p, IF auth_token = NoToken THEN ReturnNone
                    ELSE IF auth_token.expires_at < now THEN ReturnNone
                    ELSE Returned(auth_token.user_id))
       /\ tokens' = IF auth_token = NoToken \/ auth_token.expires_at < now
                    THEN tokens ELSE delete_auth_token(t)
    /\ UNCHANGED <<consumed, budget, now, REFRESH_TOKEN_ROTATION, webhook, refresh_tokens, generated,
                   families>>

validate_auth_token(p, t) ==
    /\ Call(p, t)
    /\ LET auth_token == find_auth_token_by_token(t) IN
       Finish(p, IF auth_token = NoToken THEN ReturnNone
                 ELSE IF auth_token.expires_at < now THEN ReturnNone
                 ELSE Returned(auth_token.user_id))
    /\ UNCHANGED <<others, now, REFRESH_TOKEN_ROTATION, webhook, refresh_tokens, generated, families>>

invalidate_auth_token(t) ==
    /\ tokens' = delete_auth_token(t)
    /\ UNCHANGED <<now, REFRESH_TOKEN_ROTATION, webhook, budget, refresh_tokens, generated, families,
                   consumed, reqvars>>

invalidate_user_tokens(user_id) ==
    /\ tokens' = delete_auth_tokens_by_user(user_id)
    /\ UNCHANGED <<now, REFRESH_TOKEN_ROTATION, webhook, budget, refresh_tokens, generated, families,
                   consumed, reqvars>>

\* ---- email verification tokens --------------------------------------------
\* mutant: the check deletes the token it found, as the validation does
check_email_verification_token_Deletes(p, t) ==
    /\ Call(p, t)
    /\ LET email_token == find_email_verification_token(t) IN
       /\ Finish(p, IF email_token = NoToken THEN ReturnNone
                    ELSE IF email_token.expires_at < now THEN ReturnNone
                    ELSE Returned(email_token.user_id))
       /\ tokens' = IF email_token = NoToken \/ email_token.expires_at < now
                    THEN tokens ELSE delete_email_verification_token(t)
    /\ UNCHANGED <<consumed, budget, now, REFRESH_TOKEN_ROTATION, webhook, refresh_tokens, generated,
                   families>>

check_email_verification_token(p, t) ==
    /\ Call(p, t)
    /\ LET email_token == find_email_verification_token(t) IN
       Finish(p, IF email_token = NoToken THEN ReturnNone
                 ELSE IF email_token.expires_at < now THEN ReturnNone
                 ELSE Returned(email_token.user_id))
    /\ UNCHANGED <<others, now, REFRESH_TOKEN_ROTATION, webhook, refresh_tokens, generated, families>>

\* the three one-time validations share their shape: find, check, then consume
\* lines 263-270, 313-320, 364-371: the read and the local checks
FindAndCheck(p, t, row, dead, consume) ==
    /\ Call(p, t)
    /\ IF row = NoToken \/ dead
       THEN Finish(p, ReturnNone)
       ELSE /\ found' = [found EXCEPT ![p] = row]
            /\ pc' = [pc EXCEPT ![p] = consume]
            /\ result' = [result EXCEPT ![p] = NoResult]
            /\ UNCHANGED <<refresh_token, current_time>>
    /\ UNCHANGED <<others, now, REFRESH_TOKEN_ROTATION, webhook, refresh_tokens, generated, families>>

\* lines 273-275, 323-325, 374-376: the write, then the return
Consume(p, at, store, r) ==
    /\ pc[p] = at
    /\ tokens' = store
    /\ consumed' = consumed \cup {token[p]}
    /\ Finish(p, r)
    /\ UNCHANGED <<now, REFRESH_TOKEN_ROTATION, webhook, budget, refresh_tokens, generated, families,
                   token, raced>>

validate_email_verification_token(p, t) ==
    LET email_token == find_email_verification_token(t) IN
    FindAndCheck(p, t, email_token, email_token.expires_at < now,
                 "delete_email_verification_token")

validate_email_verification_token_delete(p) ==
    Consume(p, "delete_email_verification_token",
            delete_email_verification_token(token[p]), Returned(found[p].user_id))

\* ---- password reset tokens ------------------------------------------------
\* mutant: line 319 does not look at `used`
validate_password_reset_token_IgnoreUsed(p, t) ==
    LET reset_token == find_password_reset_token(t) IN
    FindAndCheck(p, t, reset_token, reset_token.expires_at < now,
                 "mark_password_reset_token_used")

\* mutant: a used token is refused with a result of its own
validate_password_reset_token_TellsUsed(p, t) ==
    LET reset_token == find_password_reset_token(t) IN
    IF reset_token # NoToken /\ reset_token.used
    THEN /\ Call(p, t)
         /\ Finish(p, [ReturnNone EXCEPT !.kind = "Used"])
         /\ UNCHANGED <<others, now, REFRESH_TOKEN_ROTATION, webhook, refresh_tokens, generated, families>>
    ELSE FindAndCheck(p, t, reset_token, reset_token.expires_at < now,
                      "mark_password_reset_token_used")

validate_password_reset_token(p, t) ==
    LET reset_token == find_password_reset_token(t) IN
    FindAndCheck(p, t, reset_token, reset_token.used \/ reset_token.expires_at < now,
                 "mark_password_reset_token_used")

validate_password_reset_token_mark(p) ==
    Consume(p, "mark_password_reset_token_used",
            mark_password_reset_token_used(token[p]), Returned(found[p].user_id))

\* ---- email change requests ------------------------------------------------
validate_email_change_token(p, t) ==
    LET change_request == find_email_change_request(t) IN
    FindAndCheck(p, t, change_request, change_request.expires_at < now,
                 "delete_email_change_request")

\* mutant: the validation returns the user id only, as the other kinds do
validate_email_change_token_delete_UserOnly(p) ==
    Consume(p, "delete_email_change_request",
            delete_email_change_request(token[p]), Returned(found[p].user_id))

validate_email_change_token_delete(p) ==
    Consume(p, "delete_email_change_request",
            delete_email_change_request(token[p]), ReturnedRequest(found[p]))

\* ---- cleanup --------------------------------------------------------------
\* mutant: the refresh tokens are left out of the cleanup
cleanup_expired_tokens_SkipsRefresh ==
    /\ tokens' = delete_expired_tokens(now)
    /\ UNCHANGED <<now, REFRESH_TOKEN_ROTATION, webhook, budget, refresh_tokens, generated, families,
                   consumed, reqvars>>

cleanup_expired_tokens ==
    /\ refresh_tokens' = delete_expired_refresh_tokens(now)
    /\ tokens' = delete_expired_tokens(now)
    /\ UNCHANGED <<now, REFRESH_TOKEN_ROTATION, webhook, budget, generated, families, consumed, reqvars>>

\* ---- the refresh-token protocol under concurrent requests -----------------
Rotation(p) ==
    \/ \E t \in 1..budget : validate_and_rotate_refresh_token(p, t)
    \/ RotateFindLatest(p)
    \/ RotateRevokeFamily(p)
    \/ RotateMarkUsed(p)
    \/ RotateCreate(p)
    \/ RotateStoreFails(p)

Next ==
    \/ Tick
    \/ \E s \in Sites, u \in Users : create_refresh_token(s, u)
    \/ \E p \in Procs : Rotation(p)
    \/ \E u \in Users : invalidate_user_refresh_tokens(u)

Spec == Init /\ [][Next]_vars

\* ---- all five token kinds, one request at a time --------------------------
NextKinds ==
    \/ Tick
    \/ \E s \in Sites, u \in Users : create_refresh_token(s, u)
    \/ \E p \in Sequential : Rotation(p)
    \/ \E u \in Users : invalidate_user_refresh_tokens(u)
    \/ \E s \in Sites, u \in Users : create_auth_token(s, u)
    \/ \E s \in Sites, u \in Users : create_email_verification_token(s, u)
    \/ \E s \in Sites, u \in Users : create_password_reset_token(s, u)
    \/ \E s \in Sites, u \in Users, e \in Emails : create_email_change_token(s, u, e)
    \/ \E p \in Sequential, t \in 1..budget : validate_auth_token(p, t)
    \/ \E t \in 1..budget : invalidate_auth_token(t)
    \/ \E u \in Users : invalidate_user_tokens(u)
    \/ \E p \in Sequential, t \in 1..budget : check_email_verification_token(p, t)
    \/ \E p \in Sequential, t \in 1..budget : validate_email_verification_token(p, t)
    \/ \E p \in Sequential : validate_email_verification_token_delete(p)
    \/ \E p \in Sequential, t \in 1..budget : validate_password_reset_token(p, t)
    \/ \E p \in Sequential : validate_password_reset_token_mark(p)
    \/ \E p \in Sequential, t \in 1..budget : validate_email_change_token(p, t)
    \/ \E p \in Sequential : validate_email_change_token_delete(p)
    \/ cleanup_expired_tokens

SpecKinds == InitKinds /\ [][NextKinds]_vars

\* ---- the refresh endpoint (src/src/api/refresh_token.py) --------------------
\* error messages, word by word
ReuseDetectedMessage ==
    <<"Refresh", "token", "reuse", "detected", "-", "all", "sessions", "revoked">>
InvalidMessage == <<"Invalid", "or", "expired", "refresh", "token">>

\* str.lower(), on the words of the two messages
lower(words) ==
    [i \in DOMAIN words |->
        CASE words[i] = "Refresh" -> "refresh"
          [] words[i] = "Invalid" -> "invalid"
          [] OTHER -> words[i]]

\* `sub in words`
Contains(words, sub) ==
    \E i \in 0..(Len(words) - Len(sub)) :
        \A j \in 1..Len(sub) : words[i + j] = sub[j]

\* auth_service.refresh_auth_token, seen from the endpoint: the login result, a
\* ValueError with its message, or another exception of the store
refresh_auth_token(r) ==
    CASE r.kind = "Success" ->
            [raised |-> "no", message |-> << >>,
             login_result |-> [user_id |-> r.user_id, site_id |-> r.site_id,
                               refresh_token |-> r.new_refresh_token]]
      [] r.kind = "ReuseDetected" ->
            [raised |-> "ValueError", message |-> ReuseDetectedMessage,
             login_result |-> NoValue]
      [] r.kind = "None" ->
            [raised |-> "ValueError", message |-> InvalidMessage, login_result |-> NoValue]
      [] OTHER ->
            [raised |-> "Exception", message |-> << >>, login_result |-> NoValue]

\* an exception the endpoint does not catch: the framework answers with 500
Unhandled == 500

\* mutant: every ValueError is answered with 401
api_refresh_token_Always401(r) ==
    LET call == refresh_auth_token(r) IN
    CASE call.raised = "no" -> [status |-> 200, body |-> call.login_result]
      [] call.raised = "ValueError" -> [status |-> 401, body |-> NoValue]
      [] OTHER -> [status |-> Unhandled, body |-> NoValue]

\* lines 26-34: the answer of POST /api/auth/refresh
api_refresh_token(r) ==
    LET call == refresh_auth_token(r) IN
    CASE call.raised = "no" -> [status |-> 200, body |-> call.login_result]
      [] call.raised = "ValueError" ->
            IF Contains(lower(call.message), <<"reuse", "detected">>)
            THEN [status |-> 403, body |-> NoValue]
            ELSE [status |-> 401, body |-> NoValue]
      [] OTHER -> [status |-> Unhandled, body |-> NoValue]

\* ---- the one-time tokens under concurrent requests -------------------------
InitOneTime == Start /\ REFRESH_TOKEN_ROTATION /\ WebhookStart /\ budget = MaxIssued

NextOneTime ==
    \/ Tick
    \/ \E s \in Sites, u \in Users : create_email_verification_token(s, u)
    \/ \E s \in Sites, u \in Users : create_password_reset_token(s, u)
    \/ \E s \in Sites, u \in Users, e \in Emails : create_email_change_token(s, u, e)
    \/ \E p \in Procs, t \in 1..budget : validate_email_verification_token(p, t)
    \/ \E p \in Procs : validate_email_verification_token_delete(p)
    \/ \E p \in Procs, t \in 1..budget : validate_password_reset_token(p, t)
    \/ \E p \in Procs : validate_password_reset_token_mark(p)
    \/ \E p \in Procs, t \in 1..budget : validate_email_change_token(p, t)
    \/ \E p \in Procs : validate_email_change_token_delete(p)

SpecOneTime == InitOneTime /\ [][NextOneTime]_vars

\* ---- WebhookService (src/src/services/webhook_service.py) -----------------
WebhookUrl == "https://tenant.example/hook"
WebhookSecret == "whsec"
EventTypes == {"user.verified", "user.registered"}
PayloadTimestamp == 7

\* `not x` for an Optional[str]: None and the empty string are false
Falsy(x) == x \in {NoValue, ""}

\* models.site.Site, the fields send_webhook and _deliver_webhook read
WebhookSites ==
    [id : Sites, webhook_url : {NoValue, "", WebhookUrl},
     webhook_secret : {NoValue, "", WebhookSecret}]

\* models.webhook_payload.WebhookPayload
WebhookPayloads ==
    [event_type : EventTypes, site_id : Sites, user_id : Users, email : Emails,
     aegis_role : {"user"}, timestamp : {PayloadTimestamp}]

\* json.dumps(payload.to_dict(), separators=(',', ':')): keys in the order of to_dict
json_dumps(payload) ==
    "{\"event_type\":\"" \o payload.event_type
        \o "\",\"site_id\":" \o ToString(payload.site_id)
        \o ",\"user_id\":" \o ToString(payload.user_id)
        \o ",\"email\":\"" \o payload.email
        \o "\",\"aegis_role\":\"" \o payload.aegis_role
        \o "\",\"timestamp\":" \o ToString(payload.timestamp) \o "}"

\* hmac.new(key, msg, hashlib.sha256).hexdigest(): the digest is kept symbolic
hmac_sha256_hexdigest(key, msg) == "hmac-sha256(" \o key \o "," \o msg \o ")"

\* mutant: the timestamp is left out of the signed message
SignedMessage_BodyOnly(timestamp, payload_json) == payload_json

\* line 56: message = f"{timestamp}.{payload_json}"
SignedMessage(timestamp, payload_json) == ToString(timestamp) \o "." \o payload_json

compute_signature(secret, timestamp, payload_json) ==
    hmac_sha256_hexdigest(secret, SignedMessage(timestamp, payload_json))

\* what requests.post can do: answer with a status code, or raise a
\* requests.exceptions.RequestException (connection error, timeout)
StatusCodes == {199, 200, 299, 300, 500}
RequestExceptions == {"ConnectionError", "Timeout"}
Responses ==
    [kind : {"response"}, status_code : StatusCodes, error : {NoValue}]
        \cup [kind : {"RequestException"}, status_code : {None}, error : RequestExceptions]

\* mutant: only the URL is looked at
send_webhook_UrlOnly(site, payload) ==
    /\ Len(calls) < MaxCalls
    /\ IF Falsy(site.webhook_url)
       THEN /\ calls' = Append(calls, [site |-> site, payload |-> payload,
                                       returned |-> NoValue, thread |-> 0])
            /\ threads' = threads
       ELSE /\ calls' = Append(calls, [site |-> site, payload |-> payload,
                                       returned |-> NoValue, thread |-> Len(threads) + 1])
            /\ threads' = Append(threads,
                                 [site |-> site, payload |-> payload, pc |-> "post",
                                  response_status |-> None, response_body |-> NoValue,
                                  success |-> FALSE, returned |-> NoValue,
                                  logged |-> << >>])
    /\ UNCHANGED <<posts, webhook_events, signing>>

\* lines 63-82.  The caller gets None back in both branches; a thread is started
\* only in the second.
send_webhook(site, payload) ==
    /\ Len(calls) < MaxCalls
    /\ IF Falsy(site.webhook_url) \/ Falsy(site.webhook_secret)
       THEN /\ calls' = Append(calls, [site |-> site, payload |-> payload,
                                       returned |-> NoValue, thread |-> 0])
            /\ threads' = threads
       ELSE /\ calls' = Append(calls, [site |-> site, payload |-> payload,
                                       returned |-> NoValue, thread |-> Len(threads) + 1])
            /\ threads' = Append(threads,
                                 [site |-> site, payload |-> payload, pc |-> "post",
                                  response_status |-> None, response_body |-> NoValue,
                                  success |-> FALSE, returned |-> NoValue,
                                  logged |-> << >>])
    /\ UNCHANGED <<posts, webhook_events, signing>>

\* mutant: a delivery that did not get a 2xx answer is tried again
deliver_webhook_post_Retries(k, response) ==
    /\ threads[k].pc = "post"
    /\ posts' = Append(posts,
                       [thread |-> k, url |-> threads[k].site.webhook_url,
                        data |-> "", signature |-> "", event |-> "", timestamp |-> ""])
    /\ threads' = [threads EXCEPT ![k] =
                      IF response.kind = "response" /\ 200 <= response.status_code
                            /\ response.status_code < 300
                      THEN [@ EXCEPT !.pc = "create_webhook_event",
                                     !.response_status = response.status_code,
                                     !.response_body = "text",
                                     !.success = TRUE]
                      ELSE @]
    /\ UNCHANGED <<calls, webhook_events, signing>>

\* mutant: a RequestException is not caught and ends the thread
deliver_webhook_post_Propagates(k, response) ==
    /\ threads[k].pc = "post"
    /\ posts' = Append(posts,
                       [thread |-> k, url |-> threads[k].site.webhook_url,
                        data |-> "", signature |-> "", event |-> "", timestamp |-> ""])
    /\ threads' = [threads EXCEPT ![k] =
                      IF response.kind = "response"
                      THEN [@ EXCEPT !.pc = "create_webhook_event",
                                     !.response_status = response.status_code,
                                     !.response_body = "text",
                                     !.success = (200 <= response.status_code
                                                    /\ response.status_code < 300)]
                      ELSE [@ EXCEPT !.pc = "raised", !.response_body = response.error]]
    /\ UNCHANGED <<calls, webhook_events, signing>>

\* mutant: every answer below 300 counts as a success
deliver_webhook_post_Below300(k, response) ==
    /\ threads[k].pc = "post"
    /\ posts' = Append(posts,
                       [thread |-> k, url |-> threads[k].site.webhook_url,
                        data |-> "", signature |-> "", event |-> "", timestamp |-> ""])
    /\ threads' = [threads EXCEPT ![k] =
                      IF response.kind = "response"
                      THEN [@ EXCEPT !.pc = "create_webhook_event",
                                     !.response_status = response.status_code,
                                     !.response_body = "text",
                                     !.success = (response.status_code < 300)]
                      ELSE [@ EXCEPT !.pc = "create_webhook_event",
                                     !.response_body = response.error]]
    /\ UNCHANGED <<calls, webhook_events, signing>>

\* lines 95-122 of _deliver_webhook on thread k: sign, POST, and keep the outcome
deliver_webhook_post(k, response) ==
    /\ threads[k].pc = "post"
    /\ LET site == threads[k].site
           payload == threads[k].payload
           payload_json == json_dumps(payload)
           timestamp == payload.timestamp
           signature == compute_signature(site.webhook_secret, timestamp, payload_json)
       IN posts' = Append(posts,
                          [thread |-> k, url |-> site.webhook_url, data |-> payload_json,
                           signature |-> "sha256=" \o signature,
                           event |-> payload.event_type,
                           timestamp |-> ToString(timestamp)])
    /\ threads' = [threads EXCEPT ![k] =
                      IF response.kind = "response"
                      THEN [@ EXCEPT !.pc = "create_webhook_event",
                                     !.response_status = response.status_code,
                                     !.response_body = "text",
                                     !.success = (200 <= response.status_code
                                                    /\ response.status_code < 300)]
                      ELSE [@ EXCEPT !.pc = "create_webhook_event",
                                     !.response_body = response.error,
                                     !.logged = Append(@, "warning")]]
    /\ UNCHANGED <<calls, webhook_events, signing>>

\* lines 124-133: the WebhookEvent thread k hands to the audit store
WebhookEvent(k) ==
    [id |-> 0,
     site_id |-> threads[k].site.id,
     event_type |-> threads[k].payload.event_type,
     payload |-> json_dumps(threads[k].payload),
     response_status |-> threads[k].response_status,
     response_body |-> threads[k].response_body,
     success |-> threads[k].success,
     created_at |-> now,
     thread |-> k]

\* db_manager.create_webhook_event: the row is appended and gets its id
create_webhook_event(event) ==
    Append(webhook_events, [event EXCEPT !.id = Len(webhook_events) + 1])

\* lines 135-136: the audit row is written and the thread ends
deliver_webhook_log(k) ==
    /\ threads[k].pc = "create_webhook_event"
    /\ webhook_events' = create_webhook_event(WebhookEvent(k))
    /\ threads' = [threads EXCEPT ![k] = [@ EXCEPT !.pc = "end", !.returned = "event"]]
    /\ UNCHANGED <<calls, posts, signing>>

\* mutant: the error of the audit store reaches the caller of send_webhook
deliver_webhook_log_fails_Surfaces(k) ==
    /\ threads[k].pc = "create_webhook_event"
    /\ threads' = [threads EXCEPT ![k] = [@ EXCEPT !.pc = "end", !.returned = NoValue]]
    /\ calls' = [i \in DOMAIN calls |->
                    IF calls[i].thread = k
                    THEN [calls[i] EXCEPT !.returned = "Exception"] ELSE calls[i]]
    /\ UNCHANGED <<posts, webhook_events, signing>>

\* mutant: the error of the audit store is not caught and ends the thread
deliver_webhook_log_fails_Raises(k) ==
    /\ threads[k].pc = "create_webhook_event"
    /\ threads' = [threads EXCEPT ![k] = [@ EXCEPT !.pc = "raised"]]
    /\ UNCHANGED <<calls, posts, webhook_events, signing>>

\* lines 137-139: the audit store raises; the error is logged and the thread ends
deliver_webhook_log_fails(k) ==
    /\ threads[k].pc = "create_webhook_event"
    /\ threads' = [threads EXCEPT ![k] = [@ EXCEPT !.pc = "end", !.returned = NoValue,
                                                  !.logged = Append(@, "error")]]
    /\ UNCHANGED <<calls, posts, webhook_events, signing>>

\* the token state, which no webhook operation touches
tokenvars == <<now, REFRESH_TOKEN_ROTATION, budget, refresh_tokens, tokens, generated,
               families, consumed, reqvars>>

\* the rotation flag plays no part in webhook delivery
InitWebhook == Start /\ REFRESH_TOKEN_ROTATION /\ WebhookStart /\ budget = 0

NextWebhook ==
    \/ \E site \in WebhookSites, payload \in WebhookPayloads :
          send_webhook(site, payload) /\ UNCHANGED tokenvars
    \/ \E k \in DOMAIN threads, response \in Responses :
          deliver_webhook_post(k, response) /\ UNCHANGED tokenvars
    \/ \E k \in DOMAIN threads : deliver_webhook_log(k) /\ UNCHANGED tokenvars
    \/ \E k \in DOMAIN threads : deliver_webhook_log_fails(k) /\ UNCHANGED tokenvars

SpecWebhook == InitWebhook /\ [][NextWebhook]_vars

\* ---- compute_signature on its own ------------------------------------------
Alphabet == {"1", ".", "a"}

RECURSIVE Strings(_)
Strings(n) ==
    IF n = 0 THEN {""}
    ELSE LET shorter == Strings(n - 1) IN
         shorter \cup {s \o c : s \in shorter, c \in Alphabet}

Secrets == {WebhookSecret, "other"}
Timestamps == 0..MaxTimestamp
Bodies == Strings(MaxBody)

InitSignature ==
    /\ Start /\ REFRESH_TOKEN_ROTATION /\ budget = 0
    /\ calls = << >> /\ threads = << >> /\ posts = << >> /\ webhook_events = << >>
    /\ signing \in [secret : Secrets, timestamp : Timestamps, payload_json : Bodies,
                    message : {""}, signature : {"None"}]

\* a call of compute_signature with the arguments held in `signing`
ComputeSignature ==
    /\ signing.signature = "None"
    /\ signing' = [signing EXCEPT
                      !.message = SignedMessage(signing.timestamp, signing.payload_json),
                      !.signature = compute_signature(signing.secret, signing.timestamp,
                                                      signing.payload_json)]
    /\ UNCHANGED <<tokenvars, calls, threads, posts, webhook_events>>

NextSignature == ComputeSignature

SpecSignature == InitSignature /\ [][NextSignature]_vars

\* ---- properties ----------------------------------------------------------
Rotating == {"mark_used", "create"}

Failed(p) == pc[p] = "done" /\ result[p] = ReturnNone
Succeeded(p) == pc[p] = "done" /\ result[p].kind = "Success"

\* C1: two concurrent rotations of the same ACTIVE token, the second delivered
\* while the token is still valid and within the grace period, both succeed and
\* both return the same new refresh token (store failures aside).
C1_ConcurrentRotationsAgree ==
    \A p \in Procs : \A q \in raced[p] :
        (/\ pc[p] = "done" /\ pc[q] = "done"
         /\ result[p] # StoreFailure /\ result[q] # StoreFailure)
        => /\ Succeeded(p) /\ Succeeded(q)
           /\ result[p].new_refresh_token = result[q].new_refresh_token

\* C2: of the requests that present one token, only one ever gets past the
\* ACTIVE check to mark the token used and create its successor; every other
\* one sees the token USED.
C2_SingleRotator ==
    \A p, q \in Procs :
        (p # q /\ pc[p] \in Rotating /\ pc[q] \in Rotating) => token[p] # token[q]

\* a family in which reuse has been detected: revoke_refresh_token_family is the
\* only writer of `revoked`
TheftDetected(f) == \E x \in Family(f) : refresh_tokens[x].revoked

\* C3: once reuse of a family's token has been detected, every validation of
\* every stored token of that family fails, whichever token it is and however
\* it came to be in the store.
C3_FamilyDeadAfterReuse ==
    [][\A p \in Procs : \A t \in DOMAIN refresh_tokens :
          (/\ TheftDetected(refresh_tokens[t].family_id)
           /\ validate_and_rotate_refresh_token(p, t))
          => (pc'[p] = "done" /\ result'[p] = ReturnNone)]_vars

\* ---- states of a stored refresh token, read at the present time -----------
Stored(t) == t \in DOMAIN refresh_tokens
Unexpired(t) == ~(refresh_tokens[t].expires_at < now)
Active(t) ==
    Stored(t) /\ refresh_tokens[t].used_at = None /\ ~refresh_tokens[t].revoked
Used(t) ==
    Stored(t) /\ refresh_tokens[t].used_at # None /\ ~refresh_tokens[t].revoked
WithinGrace(t) == now <= refresh_tokens[t].used_at + REFRESH_TOKEN_GRACE_PERIOD
FamilyRevoked(store, f) ==
    \A x \in DOMAIN store : store[x].family_id = f => store[x].revoked

\* C4: a USED, non-revoked, non-expired token presented past its grace period
\* sends the call to the theft branch, that branch ends with the reuse-detected
\* error and not with None, and whenever that error is surfaced every stored
\* token of the family is revoked.
C4_ReuseDetectedAfterRevocation ==
    [][\A p \in Procs :
          /\ \A t \in DOMAIN refresh_tokens :
                (/\ Used(t) /\ Unexpired(t) /\ ~WithinGrace(t)
                 /\ validate_and_rotate_refresh_token(p, t))
                => pc'[p] = "revoke_family"
          /\ (pc[p] = "revoke_family" /\ pc'[p] # "revoke_family")
                => result'[p] = ReuseDetected
          /\ (result'[p] = ReuseDetected /\ pc[p] # "done")
                => FamilyRevoked(refresh_tokens', refresh_token[p].family_id)]_vars

C4_Witness ==
    \E p \in Procs :
        /\ pc[p] = "done" /\ result[p] = ReuseDetected
        /\ Stored(token[p])
        /\ Cardinality(Family(refresh_tokens[token[p]].family_id)) >= 2
        /\ FamilyRevoked(refresh_tokens, refresh_tokens[token[p]].family_id)

Newest(f) == CHOOSE t \in Family(f) : \A o \in Family(f) : o <= t

Expired(t) ==
    \/ t \in DOMAIN refresh_tokens /\ refresh_tokens[t].expires_at < now
    \/ t \in DOMAIN tokens /\ tokens[t].expires_at < now

OneTimeValidation(p, t) ==
    \/ validate_email_verification_token(p, t)
    \/ validate_password_reset_token(p, t)
    \/ validate_email_change_token(p, t)

\* the first step of a validation or check of token t by request p: it records
\* the presented token and reads the store, and writes nothing
Validation(p, t) ==
    /\ token'[p] = t
    /\ UNCHANGED <<now, generated, refresh_tokens, tokens>>
    /\ \/ validate_and_rotate_refresh_token(p, t)
       \/ validate_auth_token(p, t)
       \/ check_email_verification_token(p, t)
       \/ OneTimeValidation(p, t)

\* C6: a validation or check of a token of any of the five kinds made when
\* now > expires_at returns None at once, whatever else is true of the row.
C6_ExpiredNeverValidates ==
    [][\A p \in Procs : \A t \in 1..budget :
          (Expired(t) /\ Validation(p, t))
          => (pc'[p] = "done" /\ result'[p] = ReturnNone)]_vars

\* a stored refresh token, used and never revoked, was refused: it had expired
C6_Witness ==
    \E p \in Procs :
        /\ Failed(p)
        /\ Used(token[p])
        /\ Expired(token[p])

\* C7: a validation of a one-time token that starts after a validation of the
\* same token string has succeeded returns None.
C7_OneTimeUse ==
    [][\A p \in Procs : \A t \in consumed :
          OneTimeValidation(p, t) => (pc'[p] = "done" /\ result'[p] = ReturnNone)]_vars

\* a password-reset row, consumed and still unexpired, was refused
C7_Witness ==
    \E p \in Procs :
        /\ Failed(p)
        /\ token[p] \in consumed
        /\ token[p] \in Table("password_reset")
        /\ ~Expired(token[p])

\* C8: with rotation enabled, a fresh (ACTIVE, unexpired) token goes on to be
\* rotated, and the rotation returns a stored new token with another token
\* string and the family_id of the presented one.
C8_RotationKeepsFamily ==
    [][\A p \in Procs :
          /\ \A t \in DOMAIN refresh_tokens :
                (/\ REFRESH_TOKEN_ROTATION /\ Active(t) /\ Unexpired(t)
                 /\ validate_and_rotate_refresh_token(p, t))
                => pc'[p] = "mark_used"
          /\ (pc[p] = "mark_used" /\ pc'[p] # "mark_used" /\ result'[p] # StoreFailure)
                => pc'[p] = "create"
          /\ (pc[p] = "create" /\ pc'[p] # "create" /\ result'[p] # StoreFailure)
                => /\ result'[p].kind = "Success"
                   /\ result'[p].new_refresh_token # token[p]
                   /\ result'[p].new_refresh_token \in DOMAIN refresh_tokens'
                   /\ refresh_tokens'[result'[p].new_refresh_token].family_id
                        = refresh_token[p].family_id
                   /\ token[p] \in DOMAIN refresh_tokens'
                        => refresh_tokens'[token[p]].family_id
                            = refresh_tokens'[result'[p].new_refresh_token].family_id]_vars

\* one request alone rotated the login token
C8_Witness ==
    \E p \in Procs :
        /\ Succeeded(p)
        /\ \A q \in Procs \ {p} : pc[q] = "idle"
        /\ Stored(token[p]) /\ Stored(result[p].new_refresh_token)
        /\ result[p].new_refresh_token # token[p]
        /\ refresh_tokens[result[p].new_refresh_token].family_id
            = refresh_tokens[token[p]].family_id

\* C9: when a request that runs alone ends with a store failure, the row of
\* the token it presented is as the request found it when it started.
C9_NoPartialState ==
    [][\A p \in Procs :
          (/\ pc[p] # "done" /\ result'[p] = StoreFailure
           /\ \A q \in Procs \ {p} : pc[q] = "idle"
           /\ token[p] \in DOMAIN refresh_tokens')
          => refresh_tokens'[token[p]] = refresh_token[p]]_vars

\* C10: no step turns a stored token's revoked flag from true to false, and
\* after every step a family with one revoked token has all its tokens revoked.
C10_RevokedTerminalAndFamilyWide ==
    [][/\ \A t \in DOMAIN refresh_tokens \cap DOMAIN refresh_tokens' :
             refresh_tokens[t].revoked => refresh_tokens'[t].revoked
       /\ \A t \in DOMAIN refresh_tokens' :
             refresh_tokens'[t].revoked
                => FamilyRevoked(refresh_tokens', refresh_tokens'[t].family_id)]_vars

\* C11: a stored refresh token's used_at, once set, keeps its value in every
\* later step, whichever requests present the token and however they interleave.
C11_UsedAtWrittenOnce ==
    [][\A t \in DOMAIN refresh_tokens \cap DOMAIN refresh_tokens' :
          refresh_tokens[t].used_at # None
            => refresh_tokens'[t].used_at = refresh_tokens[t].used_at]_vars

\* C12: a revoked token, whatever its used_at and the time, is answered with
\* None at once (never with the reuse-detected error) and the store is as before.
C12_RevokedIsPlainInvalid ==
    [][\A p \in Procs : \A t \in DOMAIN refresh_tokens :
          (refresh_tokens[t].revoked /\ validate_and_rotate_refresh_token(p, t))
          => /\ pc'[p] = "done"
             /\ result'[p] = ReturnNone
             /\ refresh_tokens' = refresh_tokens
             /\ generated' = generated]_vars

\* a revoked token, used, unexpired and past its grace period (the reuse case
\* had it not been revoked), was refused with None
C12_Witness ==
    \E p \in Procs :
        /\ Failed(p)
        /\ Stored(token[p])
        /\ refresh_tokens[token[p]].revoked
        /\ refresh_tokens[token[p]].used_at # None
        /\ Unexpired(token[p]) /\ ~WithinGrace(token[p])

\* C13: with rotation disabled every call returns in its first step, writes
\* nothing, and succeeds, with no new token, exactly when the token is stored,
\* not revoked and not expired.
C13_RotationDisabledIsReadOnly ==
    [][~REFRESH_TOKEN_ROTATION =>
          /\ \A p \in Procs : \A t \in 1..budget :
                validate_and_rotate_refresh_token(p, t)
                => /\ pc'[p] = "done"
                   /\ refresh_tokens' = refresh_tokens
                   /\ generated' = generated
                   /\ result'[p] =
                        IF Stored(t) /\ ~refresh_tokens[t].revoked /\ Unexpired(t)
                        THEN RefreshTokenResult(refresh_tokens[t].user_id,
                                                refresh_tokens[t].site_id, None)
                        ELSE ReturnNone
          /\ \A p \in Procs : ~InFlight(p) /\ pc'[p] \in {"idle", "done"}
          /\ \A t \in DOMAIN refresh_tokens \cap DOMAIN refresh_tokens' :
                refresh_tokens'[t] = refresh_tokens[t]]_vars

\* with rotation disabled, a stored token was accepted and is still unused
C13_Witness ==
    \E p \in Procs :
        /\ ~REFRESH_TOKEN_ROTATION
        /\ Succeeded(p)
        /\ Active(token[p]) /\ Unexpired(token[p])
        /\ result[p].new_refresh_token = None

\* a validation or check of token t by request p that meets one of the reasons
\* to refuse it: the row is missing from the table the operation reads, it has
\* expired, it is revoked (refresh) or it is used (password reset)
Refusal(p, t) ==
    /\ token'[p] = t
    /\ UNCHANGED <<now, generated, refresh_tokens, tokens>>
    /\ \/ /\ validate_and_rotate_refresh_token(p, t)
          /\ ~Stored(t) \/ Expired(t) \/ refresh_tokens[t].revoked
       \/ /\ validate_auth_token(p, t)
          /\ t \notin Table("auth") \/ Expired(t)
       \/ /\ check_email_verification_token(p, t) \/ validate_email_verification_token(p, t)
          /\ t \notin Table("email_verification") \/ Expired(t)
       \/ /\ validate_password_reset_token(p, t)
          /\ t \notin Table("password_reset") \/ Expired(t) \/ tokens[t].used
       \/ /\ validate_email_change_token(p, t)
          /\ t \notin Table("email_change") \/ Expired(t)

\* C14: whatever the reason a token is refused for (missing, expired, used,
\* revoked), the caller gets the one value None; the only other failure a
\* validation hands its caller is the reuse-detected error, and that one comes
\* from the theft branch alone (a failing store aside).
C14_RefusalsLookAlike ==
    [][\A p \in Procs :
          /\ \A t \in 1..budget :
                Refusal(p, t) => (pc'[p] = "done" /\ result'[p] = ReturnNone)
          /\ (/\ pc'[p] = "done"
              /\ result'[p].kind # "Success"
              /\ result'[p] # StoreFailure
              /\ result'[p] # ReturnNone)
                => /\ result'[p] = ReuseDetected
                   /\ pc[p] = "revoke_family" \/ (pc[p] = "done" /\ result[p] = ReuseDetected)]_vars

\* a password-reset token, unexpired and stored, was refused because it is used
C14_Witness ==
    \E p \in Procs :
        /\ Failed(p)
        /\ token[p] \in Table("password_reset")
        /\ tokens[token[p]].used
        /\ tokens[token[p]].expires_at >= now

\* a row of the given table that is stored and has not expired
Valid(kind, t) == t \in Table(kind) /\ tokens[t].expires_at >= now

\* C15: validate_auth_token writes nothing and returns the row's user id exactly
\* when the row is stored and unexpired; an auth row never changes, and it
\* leaves the store only once expired or through invalidate_auth_token or
\* invalidate_user_tokens.
C15_AuthTokenReusable ==
    [][/\ \A p \in Procs :
             (~InFlight(p) /\ token'[p] \in 1..budget /\ validate_auth_token(p, token'[p]))
             => /\ tokens' = tokens /\ refresh_tokens' = refresh_tokens
                /\ pc'[p] = "done"
                /\ result'[p] = IF Valid("auth", token'[p])
                                 THEN Returned(tokens[token'[p]].user_id)
                                 ELSE ReturnNone
       /\ \A t \in Table("auth") :
             IF t \in DOMAIN tokens'
             THEN tokens'[t] = tokens[t]
             ELSE \/ Expired(t)
                  \/ invalidate_auth_token(t)
                  \/ \E u \in Users : invalidate_user_tokens(u)]_vars

\* an auth token was accepted and is still stored as it was
C15_Witness ==
    \E p \in Procs :
        /\ Succeeded(p)
        /\ Valid("auth", token[p])
        /\ result[p] = Returned(tokens[token[p]].user_id)

\* C16: the check writes nothing and answers with the user id exactly when the
\* row is stored and unexpired; from the same state the validation reads that
\* row, returns that user id and deletes the row; an unexpired
\* email-verification row leaves the store in no other way.
C16_CheckIsValidationWithoutDelete ==
    [][/\ \A p \in Procs :
             (/\ ~InFlight(p) /\ token'[p] \in 1..budget
              /\ now' = now /\ generated' = generated /\ budget' = budget) =>
             LET t == token'[p] IN
             /\ check_email_verification_token(p, t)
                => /\ tokens' = tokens /\ refresh_tokens' = refresh_tokens
                   /\ pc'[p] = "done"
                   /\ result'[p] = IF Valid("email_verification", t)
                                    THEN Returned(tokens[t].user_id) ELSE ReturnNone
             /\ validate_email_verification_token(p, t)
                => /\ tokens' = tokens /\ refresh_tokens' = refresh_tokens
                   /\ IF Valid("email_verification", t)
                      THEN pc'[p] = "delete_email_verification_token" /\ found'[p] = tokens[t]
                      ELSE pc'[p] = "done" /\ result'[p] = ReturnNone
       /\ \A p \in Procs :
             validate_email_verification_token_delete(p)
             => /\ result'[p] = Returned(found[p].user_id)
                /\ token[p] \notin DOMAIN tokens'
                /\ \A o \in DOMAIN tokens \ {token[p]} :
                      o \in DOMAIN tokens' /\ tokens'[o] = tokens[o]
       /\ \A t \in Table("email_verification") :
             IF t \in DOMAIN tokens'
             THEN tokens'[t] = tokens[t]
             ELSE \/ Expired(t)
                  \/ \E p \in Procs :
                        token[p] = t /\ validate_email_verification_token_delete(p)]_vars

\* an email-verification token was checked with success and is still stored
C16_Witness ==
    \E p \in Procs :
        /\ Succeeded(p)
        /\ Valid("email_verification", token[p])
        /\ result[p] = Returned(tokens[token[p]].user_id)

\* C17: a password-reset row stays in the store whatever operation runs, and its
\* used flag, once true, stays true.
C17_ResetTokenKept ==
    [][\A t \in Table("password_reset") :
          /\ t \in DOMAIN tokens'
          /\ tokens[t].used => tokens'[t].used]_vars

\* C18: create_email_change_token stores the site, user and new email it is
\* given; such a row never changes while stored; the validation reads that row,
\* and its second step returns exactly those three values, deletes the row and
\* touches no other row.
C18_EmailChangeReturnsRequest ==
    [][/\ \A s \in Sites, u \in Users, e \in Emails :
             (generated' = generated + 1 /\ create_email_change_token(s, u, e))
             => /\ generated' \in DOMAIN tokens' \ DOMAIN tokens
                /\ tokens'[generated'].kind = "email_change"
                /\ tokens'[generated'].site_id = s
                /\ tokens'[generated'].user_id = u
                /\ tokens'[generated'].new_email = e
       /\ \A t \in Table("email_change") :
             t \in DOMAIN tokens' => tokens'[t] = tokens[t]
       /\ \A p \in Procs :
             (~InFlight(p) /\ token'[p] \in 1..budget
                 /\ validate_email_change_token(p, token'[p]))
             => /\ tokens' = tokens /\ refresh_tokens' = refresh_tokens
                /\ IF Valid("email_change", token'[p])
                   THEN /\ pc'[p] = "delete_email_change_request"
                        /\ found'[p] = tokens[token'[p]]
                   ELSE pc'[p] = "done" /\ result'[p] = ReturnNone
       /\ \A p \in Procs :
             pc[p] = "delete_email_change_request"
             => IF pc'[p] = pc[p]
                THEN found'[p] = found[p] /\ token'[p] = token[p]
                ELSE /\ validate_email_change_token_delete(p)
                     /\ result'[p].kind = "Success"
                     /\ result'[p].site_id = found[p].site_id
                     /\ result'[p].user_id = found[p].user_id
                     /\ result'[p].new_email = found[p].new_email
                     /\ token[p] \notin DOMAIN tokens'
                     /\ \A o \in DOMAIN tokens \ {token[p]} :
                           o \in DOMAIN tokens' /\ tokens'[o] = tokens[o]
                     /\ refresh_tokens' = refresh_tokens]_vars

\* an email-change token was validated: its row is gone and the request came back
C18_Witness ==
    \E p \in Procs :
        /\ Succeeded(p)
        /\ token[p] \in consumed
        /\ token[p] \notin DOMAIN tokens
        /\ result[p].new_email \in Emails
        /\ result[p].site_id \in Sites
        /\ result[p].user_id \in Users

\* C19: after a cleanup at time now no row of any kind with expires_at < now is
\* left, every row with expires_at >= now is stored unchanged, and a second
\* cleanup at the same now would delete nothing.
C19_CleanupRemovesExactlyExpired ==
    [][(now' = now /\ generated' = generated /\ pc' = pc /\ cleanup_expired_tokens)
       => /\ \A t \in DOMAIN tokens' : ~(tokens'[t].expires_at < now)
          /\ \A t \in DOMAIN refresh_tokens' : ~(refresh_tokens'[t].expires_at < now)
          /\ \A t \in DOMAIN tokens :
                tokens[t].expires_at >= now
                => t \in DOMAIN tokens' /\ tokens'[t] = tokens[t]
          /\ \A t \in DOMAIN refresh_tokens :
                refresh_tokens[t].expires_at >= now
                => t \in DOMAIN refresh_tokens' /\ refresh_tokens'[t] = refresh_tokens[t]
          /\ delete_expired_tokens(now)' = tokens'
          /\ delete_expired_refresh_tokens(now)' = refresh_tokens']_vars

\* the cleanup has removed an expired password-reset row that a validation had
\* read, and has kept a row that is not expired
C19_Witness ==
    \E p \in Procs :
        /\ pc[p] = "mark_password_reset_token_used"
        /\ token[p] \notin DOMAIN tokens
        /\ found[p].expires_at < now
        /\ \E t \in DOMAIN tokens \cup DOMAIN refresh_tokens : ~Expired(t)

\* what the request in flight p returns if its remaining store steps run now
PendingResult(p) ==
    CASE pc[p] = "find_latest" ->
            LET latest == find_latest_refresh_token_in_family(refresh_token[p].family_id) IN
            IF latest # NoRow /\ latest.token # refresh_token[p].token
            THEN RefreshTokenResult(latest.user_id, latest.site_id, latest.token)
            ELSE RefreshTokenResult(refresh_token[p].user_id, refresh_token[p].site_id, None)
      [] pc[p] = "revoke_family" -> ReuseDetected
      [] pc[p] \in {"mark_used", "create"} ->
            RefreshTokenResult(refresh_token[p].user_id, refresh_token[p].site_id,
                               generated + 1)
      [] pc[p] \in {"delete_email_verification_token", "mark_password_reset_token_used"} ->
            Returned(found[p].user_id)
      [] pc[p] = "delete_email_change_request" -> ReturnedRequest(found[p])
      [] OTHER -> result[p]

\* C20: a cleanup that runs between the store steps of a validation of any kind
\* leaves the result of that validation as it was, and that result is no store
\* error.
C20_CleanupInvisibleToValidation ==
    [][(now' = now /\ generated' = generated /\ pc' = pc /\ cleanup_expired_tokens)
       => \A p \in Procs :
             InFlight(p) => /\ PendingResult(p)' = PendingResult(p)
                            /\ PendingResult(p)' # StoreFailure]_vars

\* ---- webhook delivery -------------------------------------------------------
\* the site has both a webhook URL and a webhook secret
Configured(site) == ~Falsy(site.webhook_url) /\ ~Falsy(site.webhook_secret)

PostsOf(k) == {j \in DOMAIN posts : posts[j].thread = k}
EventsOf(k) == {j \in DOMAIN webhook_events : webhook_events[j].thread = k}
Ended(k) == threads[k].pc = "end"

\* C21: a send_webhook call for a site without URL or without secret starts no
\* thread, and every thread, POST and audit row there ever is belongs to a call
\* for a site that has both.
C21_NoDeliveryWithoutUrlAndSecret ==
    /\ \A i \in DOMAIN calls : ~Configured(calls[i].site) => calls[i].thread = 0
    /\ Len(threads) = Cardinality({i \in DOMAIN calls : Configured(calls[i].site)})
    /\ \A k \in DOMAIN threads :
          /\ Configured(threads[k].site)
          /\ \E i \in DOMAIN calls : calls[i].thread = k /\ calls[i].site = threads[k].site
    /\ \A j \in DOMAIN posts : posts[j].thread \in DOMAIN threads
    /\ \A j \in DOMAIN webhook_events : webhook_events[j].thread \in DOMAIN threads

\* a call for a site that lacks the secret was made, and a later call for a
\* configured site has been delivered and logged
C21_Witness ==
    \E i, j \in DOMAIN calls :
        /\ i < j
        /\ calls[i].site.webhook_url = WebhookUrl
        /\ Falsy(calls[i].site.webhook_secret)
        /\ calls[j].thread # 0
        /\ Ended(calls[j].thread)
        /\ Len(posts) = 1 /\ Len(webhook_events) = 1

\* C22 as stated: every delivery that has ended has written exactly one audit
\* row, whose success flag tells whether a 2xx response was received.
C22_ExactlyOneAuditRow ==
    \A k \in DOMAIN threads :
        Ended(k) =>
            /\ Cardinality(EventsOf(k)) = 1
            /\ \A j \in EventsOf(k) :
                  webhook_events[j].success
                      <=> (webhook_events[j].response_status \in 200..299)

\* C22, amended: a delivery writes its audit row after its POST and at most
\* once; it has written exactly one when it ends with the audit write done, and
\* none when the audit write failed; the row's success flag is true exactly
\* when a response with status 200..299 was received.
C22_OneAuditRowUnlessStoreFails ==
    \A k \in DOMAIN threads :
        /\ Cardinality(EventsOf(k)) <= 1
        /\ ~Ended(k) => EventsOf(k) = {}
        /\ Ended(k) => (Cardinality(EventsOf(k)) = 1 <=> threads[k].returned = "event")
        /\ \A j \in EventsOf(k) :
              /\ Cardinality(PostsOf(k)) = 1
              /\ webhook_events[j].response_status = threads[k].response_status
              /\ webhook_events[j].success
                    <=> (webhook_events[j].response_status \in 200..299)

\* one delivery logged a 299 as a success, another logged a 300 as a failure
C22_Witness ==
    \E j, l \in DOMAIN webhook_events :
        /\ webhook_events[j].response_status = 299 /\ webhook_events[j].success
        /\ webhook_events[l].response_status = 300 /\ ~webhook_events[l].success
        /\ \A k \in DOMAIN threads : Ended(k)

\* C23: send_webhook hands None back in the step that starts the thread, before
\* any POST or audit write of that thread; what a caller got back never changes,
\* whatever the delivery does.
C23_CallerNeverWaitsNorSees ==
    [][/\ \A i \in DOMAIN calls : i \in DOMAIN calls' /\ calls'[i] = calls[i]
       /\ \A i \in DOMAIN calls' \ DOMAIN calls :
             /\ calls'[i].returned = NoValue
             /\ posts' = posts /\ webhook_events' = webhook_events
             /\ calls'[i].thread # 0
                => /\ threads'[calls'[i].thread].pc = "post"
                   /\ PostsOf(calls'[i].thread) = {}]_vars

\* one caller has its answer while its delivery has not posted yet; the delivery
\* of another got no connection and then could not write its audit row
C23_Witness ==
    \E i, j \in DOMAIN calls :
        /\ calls[i].thread # 0 /\ threads[calls[i].thread].pc = "post"
        /\ calls[j].thread # 0 /\ Ended(calls[j].thread)
        /\ threads[calls[j].thread].response_body \in RequestExceptions
        /\ threads[calls[j].thread].returned = NoValue
        /\ calls[i].returned = NoValue /\ calls[j].returned = NoValue

\* C24: no thread posts more than once, and there are never more POSTs than
\* send_webhook calls.
C24_AtMostOnePost ==
    /\ \A k \in DOMAIN threads : Cardinality(PostsOf(k)) <= 1
    /\ \A i, j \in DOMAIN calls :
          (calls[i].thread # 0 /\ calls[i].thread = calls[j].thread) => i = j
    /\ Len(posts) <= Len(calls)

\* a delivery answered with 500 and one that timed out have both ended, each
\* after a single POST
C24_Witness ==
    \E k, l \in DOMAIN threads :
        /\ Ended(k) /\ threads[k].response_status = 500
        /\ Ended(l) /\ threads[l].response_body = "Timeout"
        /\ Len(posts) = 2

\* C25: the signature returned is the symbolic HMAC-SHA256, keyed by the secret,
\* of the timestamp in decimal, a dot and the body; computing it again gives the
\* same value; no other timestamp or body gives the same signed message.
C25_SignatureOverTimestampDotBody ==
    signing.signature # "None" =>
        /\ signing.message = ToString(signing.timestamp) \o "." \o signing.payload_json
        /\ signing.signature = hmac_sha256_hexdigest(signing.secret, signing.message)
        /\ signing.signature = compute_signature(signing.secret, signing.timestamp,
                                                 signing.payload_json)
        /\ \A t \in Timestamps, b \in Bodies :
              (t # signing.timestamp \/ b # signing.payload_json)
              => SignedMessage(t, b) # signing.message

\* a signature was computed over a body that itself starts with digits and a dot
C25_Witness ==
    /\ signing.signature # "None"
    /\ signing.timestamp = 1
    /\ signing.payload_json = "1.a"
    /\ signing.message = "1.1.a"

\* ---- one-time tokens, two requests at once ----------------------------------
\* C26: two requests never both hold a success for the same one-time token.
C26_OneTimeTokenOneWinner ==
    \A p, q \in Procs :
        (p # q /\ Succeeded(p) /\ Succeeded(q)) => token[p] # token[q]

\* ---- boundaries of the time comparisons -------------------------------------
\* C27: with rotation on, a used, unrevoked, unexpired token presented in the
\* second used_at + grace period goes to the benign-retry path, which ends in
\* success and writes nothing; presented one second later it goes to the theft
\* path, which revokes the family and ends with the reuse-detected error.
C27_GraceWindowClosedOnTheRight ==
    [][\A p \in Procs :
          /\ (/\ ~InFlight(p) /\ token'[p] \in DOMAIN refresh_tokens
              /\ now' = now /\ refresh_tokens' = refresh_tokens
              /\ validate_and_rotate_refresh_token(p, token'[p]))
             => LET row == refresh_tokens[token'[p]] IN
                (/\ REFRESH_TOKEN_ROTATION /\ row.used_at # None
                 /\ ~row.revoked /\ now <= row.expires_at)
                => /\ now = row.used_at + REFRESH_TOKEN_GRACE_PERIOD
                      => pc'[p] = "find_latest"
                   /\ now = row.used_at + REFRESH_TOKEN_GRACE_PERIOD + 1
                      => pc'[p] = "revoke_family"
          /\ (pc[p] = "find_latest" /\ pc'[p] # pc[p])
             => /\ result'[p].kind = "Success"
                /\ refresh_tokens' = refresh_tokens
          /\ (pc[p] = "revoke_family" /\ pc'[p] # pc[p])
             => /\ result'[p] = ReuseDetected
                /\ \A x \in DOMAIN refresh_tokens' :
                      refresh_tokens'[x].family_id = refresh_token[p].family_id
                      => refresh_tokens'[x].revoked]_vars

\* one request read the token in the last second of its grace window and is on
\* the retry path; another read it one second later and is on the theft path
C27_Witness ==
    \E p, q \in Procs :
        /\ pc[p] = "find_latest"
        /\ current_time[p] = refresh_token[p].used_at + REFRESH_TOKEN_GRACE_PERIOD
        /\ pc[q] = "revoke_family"
        /\ token[q] = token[p]
        /\ current_time[q] = refresh_token[q].used_at + REFRESH_TOKEN_GRACE_PERIOD + 1

\* C28: validate_auth_token returns the owner of a stored token presented at
\* now <= expires_at, the second now = expires_at included, and None from
\* now = expires_at + 1 on and for a token that is not stored.
C28_AuthTokenValidThroughExpiresAt ==
    [][\A p \in Procs :
          (/\ ~InFlight(p) /\ token'[p] \in 1..budget
           /\ now' = now /\ tokens' = tokens
           /\ validate_auth_token(p, token'[p]))
          => LET t == token'[p] IN
             /\ (t \in Table("auth") /\ now <= tokens[t].expires_at)
                => result'[p] = Returned(tokens[t].user_id)
             /\ (t \in Table("auth") /\ now = tokens[t].expires_at)
                => result'[p].kind = "Success"
             /\ (t \in Table("auth") /\ now >= tokens[t].expires_at + 1)
                => result'[p] = ReturnNone
             /\ t \notin Table("auth") => result'[p] = ReturnNone]_vars

\* an auth token is held validated in the second it expires in
C28_Witness ==
    \E p \in Procs :
        /\ Succeeded(p)
        /\ token[p] \in Table("auth")
        /\ tokens[token[p]].expires_at = now
        /\ result[p] = Returned(tokens[token[p]].user_id)

NetworkFailure(k) == threads[k].response_body \in RequestExceptions

\* C30 as stated: a delivery whose POST failed at network level has, once
\* ended, recorded one audit row with response_status null and success false.
C30_NetworkFailureIsRecorded ==
    \A k \in DOMAIN threads :
        (NetworkFailure(k) /\ Ended(k))
        => /\ Cardinality(EventsOf(k)) = 1
           /\ \A j \in EventsOf(k) :
                 /\ webhook_events[j].response_status = None
                 /\ ~webhook_events[j].success

\* C30, amended: a delivery whose POST failed at network level goes on to the
\* audit write with a row that has response_status null, success false and the
\* error text as body; it ends normally, with that one row recorded when the
\* audit write succeeds and with no row when the audit write fails.
C30_NetworkFailureGoesToAudit ==
    \A k \in DOMAIN threads :
        NetworkFailure(k)
        => /\ threads[k].pc \in {"create_webhook_event", "end"}
           /\ WebhookEvent(k).response_status = None
           /\ ~WebhookEvent(k).success
           /\ WebhookEvent(k).response_body = threads[k].response_body
           /\ \A j \in EventsOf(k) :
                 webhook_events[j] = [WebhookEvent(k) EXCEPT !.id = j,
                                         !.created_at = webhook_events[j].created_at]
           /\ Ended(k) =>
                 Cardinality(EventsOf(k)) = IF threads[k].returned = "event" THEN 1 ELSE 0

\* a delivery that got no connection has ended with its audit row written
C30_Witness ==
    \E k \in DOMAIN threads :
        /\ threads[k].response_body = "ConnectionError"
        /\ Ended(k) /\ threads[k].returned = "event"
        /\ \E j \in EventsOf(k) :
              webhook_events[j].response_status = None /\ ~webhook_events[j].success

\* ---- failure of the audit write ----------------------------------------------
\* C31: a thread that leaves the audit write without a row written ends
\* normally, returns no event and has logged one error; the step changes no
\* call, no POST, no audit row and no other thread.
C31_AuditFailureIsOnlyLogged ==
    [][\A k \in DOMAIN threads :
          (/\ threads[k].pc = "create_webhook_event"
           /\ threads'[k].pc # "create_webhook_event"
           /\ webhook_events' = webhook_events)
          => /\ threads'[k] = [threads[k] EXCEPT !.pc = "end", !.returned = NoValue,
                                               !.logged = Append(@, "error")]
             /\ \A o \in DOMAIN threads \ {k} : threads'[o] = threads[o]
             /\ calls' = calls
             /\ posts' = posts]_vars

\* a delivery got a 200, then could not write its audit row: it has ended with
\* no event and one logged error, and its caller holds the None it got at once
C31_Witness ==
    \E i \in DOMAIN calls :
        /\ calls[i].thread # 0
        /\ calls[i].returned = NoValue
        /\ LET k == calls[i].thread IN
           /\ Ended(k)
           /\ threads[k].response_status = 200
           /\ threads[k].returned = NoValue
           /\ threads[k].logged = <<"error">>
           /\ EventsOf(k) = {}

\* ---- several users, sites and families ------------------------------------
ManySites == {1, 2}
ManyUsers == {1, 2}

\* login in a deployment with several accounts: create_refresh_token(site_id,
\* user_id) with family_id = None, so that line 110-111 generates the family
login(site_id, user_id) ==
    /\ generated < budget
    /\ families < MaxLogins
    /\ refresh_tokens' = ((generated + 1) :> NewRefreshToken(site_id, user_id, families + 1))
                            @@ refresh_tokens
    /\ generated' = generated + 1
    /\ families' = families + 1
    /\ UNCHANGED <<others, now, REFRESH_TOKEN_ROTATION, webhook, reqvars>>

InitFamilies == Start /\ WebhookStart /\ budget = MaxTokens

NextFamilies ==
    \/ Tick
    \/ \E s \in ManySites, u \in ManyUsers : login(s, u)
    \/ \E p \in Sequential : Rotation(p)
    \/ \E u \in ManyUsers : invalidate_user_refresh_tokens(u)

SpecFamilies == InitFamilies /\ [][NextFamilies]_vars

\* logout and password change next to the other users and token kinds of one site
InitSweep == Start /\ REFRESH_TOKEN_ROTATION /\ WebhookStart /\ budget = MaxTokens

NextSweep ==
    \/ Tick
    \/ \E s \in Sites, u \in ManyUsers : login(s, u)
    \/ \E p \in Sequential : Rotation(p)
    \/ \E u \in ManyUsers : invalidate_user_refresh_tokens(u)
    \/ \E s \in Sites, u \in ManyUsers : create_auth_token(s, u)
    \/ \E s \in Sites, u \in ManyUsers : create_password_reset_token(s, u)
    \/ \E p \in Sequential, t \in 1..budget : validate_auth_token(p, t)
    \/ \E u \in ManyUsers : invalidate_user_tokens(u)

SpecSweep == InitSweep /\ [][NextSweep]_vars

AuthTokensOf(u) == {t \in Table("auth") : tokens[t].user_id = u}

RefreshTokensOf(u) == {t \in DOMAIN refresh_tokens : refresh_tokens[t].user_id = u}

\* a token issued earlier that is in no table any more
Swept(t) == t \in 1..generated /\ t \notin DOMAIN refresh_tokens /\ t \notin DOMAIN tokens

\* C32: invalidate_user_tokens(u) removes every auth token of user u and
\* invalidate_user_refresh_tokens(u) every refresh token of user u; a step that
\* removes a token of user u removes exactly the tokens of u in that table and
\* changes no other row of either table; a removed token never comes back, and a
\* validation that presents it returns None (never the reuse error) and changes
\* no table.
C32_SweepRemovesTheUsersTokensOnly ==
    [][/\ \A u \in ManyUsers :
            /\ invalidate_user_tokens(u) => AuthTokensOf(u) \cap DOMAIN tokens' = {}
            /\ invalidate_user_refresh_tokens(u)
                    => RefreshTokensOf(u) \cap DOMAIN refresh_tokens' = {}
            /\ AuthTokensOf(u) \ DOMAIN tokens' # {}
                    => /\ tokens' = [x \in DOMAIN tokens \ AuthTokensOf(u) |-> tokens[x]]
                       /\ refresh_tokens' = refresh_tokens
            /\ RefreshTokensOf(u) \ DOMAIN refresh_tokens' # {}
                    => /\ refresh_tokens' = [x \in DOMAIN refresh_tokens \ RefreshTokensOf(u)
                                                |-> refresh_tokens[x]]
                       /\ tokens' = tokens
       /\ \A t \in 1..generated :
            Swept(t) =>
                /\ t \notin DOMAIN refresh_tokens' /\ t \notin DOMAIN tokens'
                /\ \A p \in Sequential :
                      (/\ token'[p] = t
                       /\ validate_and_rotate_refresh_token(p, t) \/ validate_auth_token(p, t))
                      => /\ pc'[p] = "done"
                         /\ result'[p] = ReturnNone
                         /\ UNCHANGED <<refresh_tokens, tokens>>]_vars

\* a token is gone and was refused with None, while a refresh token of user 1 and
\* an auth token of user 2 are still in their tables
C32_Witness ==
    /\ generated = 3
    /\ \E t \in 1..generated :
          /\ Swept(t)
          /\ token["r1"] = t
          /\ Failed("r1")
    /\ \E a \in AuthTokensOf(2), r \in RefreshTokensOf(1) : Active(r)
    /\ AuthTokensOf(1) = {}

\* C33: a request that presents a stored refresh token whose expires_at is
\* before the current time returns None at once and leaves the refresh_tokens
\* table as it is, whatever the token's used_at and revoked fields are: no
\* family is revoked and no reuse error is raised, also when the token is USED
\* and its grace period is over.
C33_ExpiryBeforeTheftDetection ==
    [][\A p \in Procs :
          ~InFlight(p) =>
              \A t \in DOMAIN refresh_tokens :
                  (/\ refresh_tokens[t].expires_at < now
                   /\ token'[p] = t
                   /\ validate_and_rotate_refresh_token(p, t))
                  => /\ pc'[p] = "done"
                     /\ result'[p] = ReturnNone
                     /\ refresh_tokens' = refresh_tokens]_vars

\* an expired USED token past its grace period was presented and refused with
\* None, and no token of its family is revoked
C33_Witness ==
    /\ REFRESH_TOKEN_ROTATION
    /\ \E p \in Procs :
          /\ Failed(p)
          /\ token[p] \in DOMAIN refresh_tokens
          /\ LET t == token[p] IN
             /\ Used(t)
             /\ ~WithinGrace(t)
             /\ refresh_tokens[t].expires_at < now
             /\ ~TheftDetected(refresh_tokens[t].family_id)
          /\ \A o \in Procs \ {p} : pc[o] = "idle"

\* all rows of one family carry one site_id and one user_id
OneOwnerPerFamily ==
    \A a \in DOMAIN refresh_tokens, b \in DOMAIN refresh_tokens :
        refresh_tokens[a].family_id = refresh_tokens[b].family_id
            => /\ refresh_tokens[a].site_id = refresh_tokens[b].site_id
               /\ refresh_tokens[a].user_id = refresh_tokens[b].user_id

\* C34: families are started by login (create_refresh_token without family_id)
\* and extended by rotation only; in every reachable state all refresh tokens of
\* one family have the same site_id and the same user_id, and every refresh
\* that returns a result reports the site_id and user_id stored with the
\* presented token. (The table is empty in the initial state, so the first
\* conjunct covers every reachable state.)
C34_FamilyHasOneSiteAndUser ==
    [][/\ OneOwnerPerFamily'
       /\ \A p \in Sequential :
            (/\ pc'[p] = "done"
             /\ result'[p].kind = "Success"
             /\ token'[p] \in DOMAIN refresh_tokens
             /\ InFlight(p) \/ validate_and_rotate_refresh_token(p, token'[p]))
            => /\ result'[p].user_id = refresh_tokens[token'[p]].user_id
               /\ result'[p].site_id = refresh_tokens[token'[p]].site_id]_vars

\* two families of different users on different sites are stored; a retry within the
\* grace period was answered with the successor of the presented token and
\* with the presented token's site and user
C34_Witness ==
    /\ Succeeded("r1")
    /\ token["r1"] \in DOMAIN refresh_tokens
    /\ LET t == token["r1"] IN
       /\ Used(t)
       /\ result["r1"].new_refresh_token \in Family(refresh_tokens[t].family_id) \ {t}
       /\ result["r1"].user_id = refresh_tokens[t].user_id
       /\ result["r1"].site_id = refresh_tokens[t].site_id
       /\ \E o \in DOMAIN refresh_tokens :
             /\ o > result["r1"].new_refresh_token
             /\ refresh_tokens[o].family_id # refresh_tokens[t].family_id
             /\ refresh_tokens[o].user_id # refresh_tokens[t].user_id
             /\ refresh_tokens[o].site_id # refresh_tokens[t].site_id

ActiveIn(f) == {t \in Family(f) : Active(t)}

\* C35: with rotation enabled, in every reachable state each refresh-token
\* family holds at most one ACTIVE token (used_at null, revoked false).
C35_AtMostOneActivePerFamily ==
    REFRESH_TOKEN_ROTATION => \A f \in 1..families : Cardinality(ActiveIn(f)) <= 1

FamilyIds == {refresh_tokens[x].family_id : x \in DOMAIN refresh_tokens}

\* C36: the step that detects theft in family F (lines 173-175) revokes rows of
\* F only: every row whose family_id differs from F is the same before and
\* after, also when it belongs to the same user and site; and a login
\* (create_refresh_token without a family_id) stores its token under a
\* family_id that no stored row has.
C36_OtherFamiliesUntouched ==
    [][/\ \A p \in Sequential :
            pc[p] = "revoke_family" /\ pc'[p] = "done"
            => /\ DOMAIN refresh_tokens' = DOMAIN refresh_tokens
               /\ \A x \in DOMAIN refresh_tokens :
                     refresh_tokens[x].family_id # refresh_token[p].family_id
                        => refresh_tokens'[x] = refresh_tokens[x]
       /\ \A x \in DOMAIN refresh_tokens :
            ~refresh_tokens[x].revoked /\ x \in DOMAIN refresh_tokens'
            => (refresh_tokens'[x].revoked
                    => \E p \in Sequential :
                          /\ pc[p] = "revoke_family"
                          /\ refresh_token[p].family_id = refresh_tokens[x].family_id)
       /\ \A x \in DOMAIN refresh_tokens' \ DOMAIN refresh_tokens :
            pc' = pc => refresh_tokens'[x].family_id \notin FamilyIds]_vars

\* theft was detected in the family of the presented token, all of that family
\* is revoked, and another family of the same user on the same site still has
\* its ACTIVE token
C36_Witness ==
    /\ pc["r1"] = "done"
    /\ result["r1"] = ReuseDetected
    /\ token["r1"] \in DOMAIN refresh_tokens
    /\ LET t == token["r1"] IN
       /\ Cardinality(Family(refresh_tokens[t].family_id)) = 2
       /\ FamilyRevoked(refresh_tokens, refresh_tokens[t].family_id)
       /\ \E o \in DOMAIN refresh_tokens :
             /\ refresh_tokens[o].family_id # refresh_tokens[t].family_id
             /\ refresh_tokens[o].user_id = refresh_tokens[t].user_id
             /\ refresh_tokens[o].site_id = refresh_tokens[t].site_id
             /\ Active(o)
====
